---- MODULE Spec2Model ----
(***************************************************************************)
(* A model of the ember model-registry core: the LMModule prompt module    *)
(* (lm_modules.py), the ModelFactory exercised by test_factory.py, the     *)
(* provider Registry and the UsageService.                                 *)
(*                                                                         *)
(* Strings are sequences of characters.  Fixed literals of the source      *)
(* ("[Persona: ", "# Chain of Thought:") are single tokens; they neither   *)
(* begin nor end with whitespace, so trimming treats them as non-blank.    *)
(* Temperatures are in tenths (1.0 is 10).                                 *)
(***************************************************************************)
EXTENDS Integers, Sequences, FiniteSets, TLC

VARIABLES
    module,        \* the LMModule object: constructed flag, self.config, self.model_service
    ctor,          \* the last constructor call: its arguments and its outcome
    callerPc,      \* "idle" before a forward call, "done" once it returned or raised
    call,          \* the arguments of the last forward call (prompt, kwargs)
    invoked,       \* the invoke_model calls the last forward call made, in order
    result,        \* what the last forward call returned or raised
    earlierCalls,  \* TRUE once a forward call has completed before the current one
    namespace,     \* what provider discovery finds in the scanned package
    providers,     \* the Factory's lazily computed, cached discovery mapping
    fPc,           \* "idle" before a create_model_from_info call, "done" after it
    fCall,         \* the last create_model_from_info call: its ModelInfo and its outcome
    cache,         \* Registry: identifier -> cached provider instance (0: no entry)
    lock,          \* Registry: identifier -> the caller holding its construction lock (0: free)
    rPc,           \* Registry: each caller's position in getOrCreate
    rKey,          \* Registry: the identifier each caller asked for
    rLocal,        \* Registry: the instance each caller looked up, built or was returned
    nextInstance,  \* Registry: the identity the next constructed instance gets
    built,         \* history: identifier -> the instances the Factory constructed for it
    got,           \* history: identifier -> the instances getOrCreate returned for it
    unregs,        \* history: identifier -> unregister calls made for it
    contended,     \* history: identifier -> a first-time call began while another was in flight
    totals,        \* UsageService: identifier -> accumulated UsageRecord
    uLock,         \* UsageService: identifier -> the thread inside its critical section (0: none)
    uPc,           \* UsageService: each recorder's position in record
    uArgs,         \* UsageService: each recorder's arguments (identifier, tokens, cost)
    uLocal,        \* UsageService: the record each recorder read
    committed,     \* history: identifier -> the sum of the contributions fully written
    observed,      \* the reader's last totals() snapshot, with `committed` at that moment
    overlapped     \* history: identifier -> a record call began while another was in flight

lmVars == <<module, ctor, callerPc, call, invoked, result, earlierCalls>>
factoryVars == <<namespace, providers, fPc, fCall>>
registryVars == <<cache, lock, rPc, rKey, rLocal, nextInstance, built, got, unregs, contended>>
usageVars == <<totals, uLock, uPc, uArgs, uLocal, committed, observed, overlapped>>

vars == <<module, ctor, callerPc, call, invoked, result, earlierCalls,
          namespace, providers, fPc, fCall,
          cache, lock, rPc, rKey, rLocal, nextInstance, built, got, unregs, contended,
          totals, uLock, uPc, uArgs, uLocal, committed, observed, overlapped>>

\* What the operations of one component leave alone: the other components.
LMFrame == UNCHANGED <<factoryVars, registryVars, usageVars>>
FactoryFrame == UNCHANGED <<lmVars, registryVars, usageVars>>
RegistryFrame == UNCHANGED <<lmVars, factoryVars, usageVars>>
UsageFrame == UNCHANGED <<lmVars, factoryVars, registryVars>>

----------------------------------------------------------------------------
(* Bounds *)

MaxPromptLen == 3
MaxIdLen == 3
NumCallers == 2
MaxUnregisters == 1
NumRecorders == 2

----------------------------------------------------------------------------
(* Python values *)

\* Optional[...]: None, or a present value.
NoneStr == [some |-> FALSE, val |-> <<>>]
SomeStr(s) == [some |-> TRUE, val |-> s]
NoneInt == [some |-> FALSE, val |-> 0]
SomeInt(n) == [some |-> TRUE, val |-> n]

\* Truthiness of an Optional[str]: None and "" are falsy.
Truthy(o) == o.some /\ o.val # <<>>

Chars == {"a", " ", "\n"}

IsSpace(c) == c \in {" ", "\n"}

StrUpTo(n) == UNION {[1..k -> Chars] : k \in 0..n}

\* str.lstrip(), str.rstrip(), str.strip()
RECURSIVE LStrip(_)
LStrip(s) == IF s = <<>> THEN s
             ELSE IF IsSpace(Head(s)) THEN LStrip(Tail(s)) ELSE s

RECURSIVE RStrip(_)
RStrip(s) == IF s = <<>> THEN s
             ELSE IF IsSpace(s[Len(s)]) THEN RStrip(SubSeq(s, 1, Len(s) - 1)) ELSE s

StripLeftOnly(s) == LStrip(s)

Strip(s) == RStrip(LStrip(s))

\* sep.join(segments)
RECURSIVE Join(_, _)
Join(sep, segs) == IF segs = <<>> THEN <<>>
                   ELSE IF Len(segs) = 1 THEN segs[1]
                   ELSE segs[1] \o sep \o Join(sep, Tail(segs))

\* str(n) for a non-negative int
Digit(d) == CASE d = 0 -> "0" [] d = 1 -> "1" [] d = 2 -> "2" [] d = 3 -> "3"
              [] d = 4 -> "4" [] d = 5 -> "5" [] d = 6 -> "6" [] d = 7 -> "7"
              [] d = 8 -> "8" [] d = 9 -> "9"

RECURSIVE IntToStr(_)
IntToStr(n) == IF n < 10 THEN <<Digit(n)>>
               ELSE Append(IntToStr(n \div 10), Digit(n % 10))

----------------------------------------------------------------------------
(* LMModuleConfig *)

ModelIds == {"openai:gpt-4o", "provider:custom-model"}
ConfigTemperatures == {10, 7}
ConfigMaxTokens == {NoneInt, SomeInt(64)}
Personas == {NoneStr, SomeStr(<<>>), SomeStr(<<"H">>)}
CotPrompts == {NoneStr, SomeStr(<<>>), SomeStr(<<"\n", "T", " ">>)}

LMModuleConfig ==
    [model_id : ModelIds, temperature : ConfigTemperatures,
     max_tokens : ConfigMaxTokens, cot_prompt : CotPrompts, persona : Personas]

NoConfig == [model_id |-> "openai:gpt-4o", temperature |-> 10, max_tokens |-> NoneInt,
             cot_prompt |-> NoneStr, persona |-> NoneStr]

----------------------------------------------------------------------------
(* LMModule._assemble_full_prompt *)

AssembleFullPrompt(cfg, user_prompt) ==
    LET s1 == IF Truthy(cfg.persona)
              THEN << <<"[Persona: ">> \o cfg.persona.val \o <<"]", "\n">> >>
              ELSE <<>>
        s2 == Append(s1, Strip(user_prompt))
        s3 == IF Truthy(cfg.cot_prompt)
              THEN Append(s2, <<"\n", "\n", "# Chain of Thought:", "\n">>
                              \o Strip(cfg.cot_prompt.val))
              ELSE s2
    IN  Strip(Join(<<"\n">>, s3))

----------------------------------------------------------------------------
(* get_default_model_service and LMModule.__init__ *)

\* The parameters the function declares (both required, positional) and the
\* arguments __init__ passes when model_service is None.
DefaultServiceParams == <<"registry", "usage_service">>
DefaultServiceCallArgs == <<>>

DefaultService == "ModelService(GLOBAL_MODEL_REGISTRY, UsageService())"
InjectedService == "injected ModelService"
NoService == "no service"

\* Calling get_default_model_service with `args`: Python binds the arguments to
\* the parameters before the body runs, and raises TypeError when a required
\* one is missing; the body ignores both and builds the service from globals.
GetDefaultModelService(args) ==
    IF Len(args) # Len(DefaultServiceParams)
    THEN [exc |-> "TypeError", service |-> NoService]
    ELSE [exc |-> "", service |-> DefaultService]

ServiceArgs == {"None", InjectedService}

NoModule == [constructed |-> FALSE, config |-> NoConfig, model_service |-> NoService]

\* LMModule(config, model_service)
Construct(config, model_service) ==
    /\ ~module.constructed
    /\ LET svc == IF model_service = "None"
                  THEN GetDefaultModelService(DefaultServiceCallArgs)
                  ELSE [exc |-> "", service |-> model_service]
       IN  /\ ctor' = [called |-> TRUE, config |-> config,
                       model_service |-> model_service, exc |-> svc.exc]
           /\ module' = IF svc.exc # ""
                        THEN NoModule
                        ELSE [constructed |-> TRUE, config |-> config,
                              model_service |-> svc.service]
    /\ UNCHANGED <<callerPc, call, invoked, result, earlierCalls>>
    /\ LMFrame

----------------------------------------------------------------------------
(* LMModule.forward / __call__ *)

KwKeys == {"temperature", "max_tokens", "top_p"}
KwValues == [temperature |-> 2, max_tokens |-> 16, top_p |-> 9]
KwargsSet == {[k \in D |-> KwValues[k]] : D \in SUBSET KwKeys}

\* The keywords the call at lines 126-132 names explicitly.
ExplicitKeywords == {"model_id", "prompt", "temperature", "max_tokens"}

\* f(a=1, **{"a": 2}) raises TypeError (multiple values for keyword argument).
DuplicateKeyword(kwargs) == DOMAIN kwargs \cap ExplicitKeywords # {}

\* kwargs.get(key, default)
KwGetTemperature(kwargs, default) ==
    IF "temperature" \in DOMAIN kwargs THEN kwargs["temperature"] ELSE default

KwGetMaxTokens(kwargs, default) ==
    IF "max_tokens" \in DOMAIN kwargs THEN SomeInt(kwargs["max_tokens"]) ELSE default

\* What ModelService.invoke_model answers: an object with a data attribute, a
\* plain str, an int, or an exception.
Responses ==
    { [kind |-> "obj", data |-> <<"o", "k">>, num |-> 0],
      [kind |-> "str", data |-> <<"h", "i">>, num |-> 0],
      [kind |-> "int", data |-> <<>>, num |-> 42],
      [kind |-> "raise", data |-> <<>>, num |-> 0] }

HasData(response) == response.kind = "obj"

\* str(response) of a response without a data attribute
PyStr(response) ==
    IF response.kind = "int" THEN IntToStr(response.num) ELSE response.data

\* Line 134: response.data if hasattr(response, "data") else str(response)
ReturnValueDataOnly(response) == response.data

ReturnValue(response) ==
    IF HasData(response) THEN response.data ELSE PyStr(response)

\* forward assigns to no attribute of self: the stored config after a call.
StoredConfigMerged(cfg, kwargs) ==
    [cfg EXCEPT !.temperature = KwGetTemperature(kwargs, cfg.temperature),
                !.max_tokens = KwGetMaxTokens(kwargs, cfg.max_tokens)]

StoredConfigAfter(cfg, kwargs) == cfg

NoResponse == [kind |-> "none", data |-> <<>>, num |-> 0]
NoResult == [status |-> "none", value |-> <<>>, exc |-> ""]
NoCall == [prompt |-> <<>>, kwargs |-> <<>>, final_prompt |-> <<>>, response |-> NoResponse]

Forward(prompt, kwargs, response) ==
    /\ module.constructed
    /\ callerPc = "idle"
    /\ callerPc' = "done"
    /\ LET final_prompt == AssembleFullPrompt(module.config, prompt)
           args == [model_id |-> module.config.model_id,
                    prompt |-> final_prompt,
                    temperature |-> KwGetTemperature(kwargs, module.config.temperature),
                    max_tokens |-> KwGetMaxTokens(kwargs, module.config.max_tokens),
                    extra |-> kwargs]
       IN  IF DuplicateKeyword(kwargs)
           THEN /\ invoked' = <<>>
                /\ call' = [prompt |-> prompt, kwargs |-> kwargs,
                            final_prompt |-> final_prompt, response |-> NoResponse]
                /\ result' = [status |-> "raised", value |-> <<>>, exc |-> "TypeError"]
           ELSE /\ invoked' = <<args>>
                /\ call' = [prompt |-> prompt, kwargs |-> kwargs,
                            final_prompt |-> final_prompt, response |-> response]
                /\ result' =
                     IF response.kind = "raise"
                     THEN [status |-> "raised", value |-> <<>>, exc |-> "InvocationError"]
                     ELSE [status |-> "returned", value |-> ReturnValue(response),
                           exc |-> ""]
    /\ module' = [module EXCEPT !.config = StoredConfigAfter(module.config, kwargs)]
    /\ UNCHANGED <<ctor, earlierCalls>>
    /\ LMFrame

\* The caller takes the result and is ready for its next call.
NextCall ==
    /\ callerPc = "done"
    /\ callerPc' = "idle"
    /\ call' = NoCall
    /\ invoked' = <<>>
    /\ result' = NoResult
    /\ earlierCalls' = TRUE
    /\ UNCHANGED <<module, ctor>>
    /\ LMFrame

LMInit ==
    /\ module = NoModule
    /\ ctor = [called |-> FALSE, config |-> NoConfig, model_service |-> "None", exc |-> ""]
    /\ callerPc = "idle"
    /\ call = NoCall
    /\ invoked = <<>>
    /\ result = NoResult
    /\ earlierCalls = FALSE

LMNext ==
    \/ \E config \in LMModuleConfig, model_service \in ServiceArgs :
          Construct(config, model_service)
    \/ \E prompt \in StrUpTo(MaxPromptLen), kwargs \in KwargsSet, response \in Responses :
          Forward(prompt, kwargs, response)
    \/ NextCall

----------------------------------------------------------------------------
(* Properties of the LMModule *)

AllSpace(s) == \A i \in 1..Len(s) : IsSpace(s[i])

\* r is u with its leading and trailing whitespace removed and nothing else changed.
IsTrimOf(r, u) ==
    \E i \in 1..(Len(u) + 1) : \E j \in 0..Len(u) :
        /\ r = SubSeq(u, i, j)
        /\ AllSpace(SubSeq(u, 1, i - 1))
        /\ AllSpace(SubSeq(u, j + 1, Len(u)))
        /\ (r = <<>> \/ (~IsSpace(r[1]) /\ ~IsSpace(r[Len(r)])))

\* C1: with a non-empty persona P and a non-empty chain-of-thought C, the
\* assembled prompt is "[Persona: P]" + newline + trimmed U + blank line +
\* "# Chain of Thought:" + newline + trimmed C, with no other newline added.
C1_AssembledLayout ==
    (/\ callerPc = "done"
     /\ Truthy(module.config.persona)
     /\ Truthy(module.config.cot_prompt))
    => call.final_prompt =
          <<"[Persona: ">> \o module.config.persona.val \o <<"]", "\n">>
          \o Strip(call.prompt)
          \o <<"\n", "\n", "# Chain of Thought:", "\n">>
          \o Strip(module.config.cot_prompt.val)

\* C2: a temperature (max_tokens) override is what invoke_model receives and the
\* call completes; without the override invoke_model receives the stored value.
C2_OverridePrecedence ==
    callerPc = "done" =>
        /\ "temperature" \in DOMAIN call.kwargs =>
              /\ result.exc # "TypeError"
              /\ Len(invoked) = 1
              /\ invoked[1].temperature = call.kwargs["temperature"]
        /\ ("temperature" \notin DOMAIN call.kwargs /\ invoked # <<>>) =>
              invoked[1].temperature = module.config.temperature
        /\ "max_tokens" \in DOMAIN call.kwargs =>
              /\ result.exc # "TypeError"
              /\ Len(invoked) = 1
              /\ invoked[1].max_tokens = SomeInt(call.kwargs["max_tokens"])
        /\ ("max_tokens" \notin DOMAIN call.kwargs /\ invoked # <<>>) =>
              invoked[1].max_tokens = module.config.max_tokens

\* C7: with no persona and no chain-of-thought the assembled prompt is the user
\* prompt with its leading and trailing whitespace removed, nothing else changed.
C7_PlainPromptTrimmed ==
    (/\ callerPc = "done"
     /\ ~Truthy(module.config.persona)
     /\ ~Truthy(module.config.cot_prompt))
    => IsTrimOf(call.final_prompt, call.prompt)

C7_Witness ==
    /\ callerPc = "done"
    /\ module.config.persona = NoneStr
    /\ module.config.cot_prompt = NoneStr
    /\ call.prompt = <<" ", "a", "\n">>
    /\ call.final_prompt = <<"a">>

\* C8: forward calls, with or without overrides, returning or raising, leave the
\* module's config as it was given to the constructor.
C8_ConfigNotMutated ==
    module.constructed => module.config = ctor.config

C8_Witness ==
    /\ callerPc = "done"
    /\ earlierCalls
    /\ "temperature" \in DOMAIN call.kwargs
    /\ call.kwargs["temperature"] # module.config.temperature
    /\ module.config = ctor.config

\* C9: LMModule(config, model_service=None) succeeds and holds the default
\* ModelService; with an explicit service it holds exactly that service.
C9_DefaultServiceFallback ==
    ctor.called =>
        /\ module.constructed
        /\ module.model_service =
              IF ctor.model_service = "None" THEN DefaultService ELSE ctor.model_service

\* C10: a forward call that reaches the service makes exactly one invoke_model
\* call, with the stored model_id and the assembled prompt, and returns
\* response.data when the response has that attribute and str(response) otherwise.
C10_Delegation ==
    (callerPc = "done" /\ invoked # <<>>) =>
        /\ Len(invoked) = 1
        /\ invoked[1].model_id = module.config.model_id
        /\ invoked[1].prompt = AssembleFullPrompt(module.config, call.prompt)
        /\ call.response.kind = "obj" =>
              (result.status = "returned" /\ result.value = call.response.data)
        /\ call.response.kind = "str" =>
              (result.status = "returned" /\ result.value = call.response.data)
        /\ (call.response.kind = "int" /\ call.response.num = 42) =>
              (result.status = "returned" /\ result.value = <<"4", "2">>)

C10_Witness ==
    /\ callerPc = "done"
    /\ Len(invoked) = 1
    /\ invoked[1].prompt # call.prompt
    /\ call.response.kind = "int"
    /\ result.value = <<"4", "2">>

----------------------------------------------------------------------------
(* ModelInfo and the ModelFactory (the factory's code is not among the     *)
(* sources; its test is).  Identifiers and provider names are sequences of *)
(* tokens: name fragments and the separator ":".                           *)

IdTokens == {"dummy", "DummyProvider", "factory", ":"}
Identifiers == UNION {[1..k -> IdTokens] : k \in 0..MaxIdLen}

ProviderNames == {<<"DummyProvider">>, <<"OpenAI">>}

Costs == {[input_cost_per_thousand |-> 1, output_cost_per_thousand |-> 2],
          [input_cost_per_thousand |-> 0 - 1, output_cost_per_thousand |-> 2]}
RateLimits == {[tokens_per_minute |-> 1000, requests_per_minute |-> 100],
               [tokens_per_minute |-> 0, requests_per_minute |-> 100]}
\* (api_key, provider.default_api_key)
Credentials == {[api_key |-> "dummy_key", default_api_key |-> "dummy_key"],
                [api_key |-> "None", default_api_key |-> "dummy_key"],
                [api_key |-> "None", default_api_key |-> "None"]}

ModelInfos == [id : Identifiers, provider_name : ProviderNames, cost : Costs,
               rate_limit : RateLimits, keys : Credentials]

\* create_dummy_model_info() of the factory's test
DummyModelInfo ==
    [id |-> <<"dummy", ":", "factory">>, provider_name |-> <<"DummyProvider">>,
     cost |-> [input_cost_per_thousand |-> 1, output_cost_per_thousand |-> 2],
     rate_limit |-> [tokens_per_minute |-> 1000, requests_per_minute |-> 100],
     keys |-> [api_key |-> "dummy_key", default_api_key |-> "dummy_key"]]

\* dummy_discover_providers of the test: the provider names it maps to a class.
DummyDiscoverProviders == {<<"DummyProvider">>}

Namespaces == {{}, DummyDiscoverProviders, DummyDiscoverProviders \cup {<<"OpenAI">>}}

\* DummyProviderModel.__init__: the instance keeps the ModelInfo it is given.
ProviderInitDefaultInfo(class, model_info) ==
    [class |-> class, model_info |-> [DummyModelInfo EXCEPT !.id = <<"factory">>]]

ProviderInit(class, model_info) == [class |-> class, model_info |-> model_info]

\* parse_model_str: exactly one separator with a non-empty segment on each
\* side, or ValueError.
Separators(id) == {i \in 1..Len(id) : id[i] = ":"}

WellFormed(id) ==
    /\ Cardinality(Separators(id)) = 1
    /\ 1 \notin Separators(id)
    /\ Len(id) \notin Separators(id)

ParseModelStr(id) ==
    IF WellFormed(id)
    THEN LET i == CHOOSE i \in Separators(id) : TRUE
         IN  [exc |-> "", provider |-> SubSeq(id, 1, i - 1),
              model |-> SubSeq(id, i + 1, Len(id))]
    ELSE [exc |-> "ValueError", provider |-> <<>>, model |-> <<>>]

\* Cost and rate-limit bounds, and a credential (the provider's default when
\* the ModelInfo has none).
ValidConfig(model_info) ==
    /\ model_info.cost.input_cost_per_thousand >= 0
    /\ model_info.cost.output_cost_per_thousand >= 0
    /\ model_info.rate_limit.tokens_per_minute > 0
    /\ model_info.rate_limit.requests_per_minute > 0
    /\ (model_info.keys.api_key # "None" \/ model_info.keys.default_api_key # "None")

\* An exception caught by the factory leaves it as ProviderConfigError.
LeakRaw(exc) == exc

Wrapped(exc) == "ProviderConfigError"

\* The key the factory looks up in the discovery mapping: the ModelInfo's
\* provider name (the test creates "dummy:factory" from the mapping
\* {"DummyProvider": ...} with provider name "DummyProvider").
LookupKey(model_info) == model_info.provider_name

NoInstance == [class |-> <<>>, model_info |-> DummyModelInfo]
Raised(exc) == [status |-> "raised", exc |-> exc, instance |-> NoInstance]

\* ModelFactory.create_model_from_info, given the discovery mapping
CreateOutcome(model_info, discovered) ==
    IF ParseModelStr(model_info.id).exc # ""
    THEN Raised(Wrapped(ParseModelStr(model_info.id).exc))
    ELSE IF LookupKey(model_info) \notin discovered
    THEN Raised("ProviderConfigError")
    ELSE IF ~ValidConfig(model_info)
    THEN Raised("ProviderConfigError")
    ELSE [status |-> "instance", exc |-> "",
          instance |-> ProviderInit(LookupKey(model_info), model_info)]

NoProviders == [computed |-> FALSE, names |-> {}]
NoFactoryCall == [model_info |-> DummyModelInfo, outcome |-> Raised("")]

CreateModelFromInfo(model_info) ==
    /\ fPc = "idle"
    /\ fPc' = "done"
    /\ LET reachesLookup == ParseModelStr(model_info.id).exc = ""
           discovered == IF providers.computed THEN providers.names ELSE namespace
       IN  /\ providers' = IF reachesLookup
                           THEN [computed |-> TRUE, names |-> discovered]
                           ELSE providers
           /\ fCall' = [model_info |-> model_info,
                        outcome |-> CreateOutcome(model_info, discovered)]
    /\ UNCHANGED namespace
    /\ FactoryFrame

FactoryNextCall ==
    /\ fPc = "done"
    /\ fPc' = "idle"
    /\ fCall' = NoFactoryCall
    /\ UNCHANGED <<namespace, providers>>
    /\ FactoryFrame

FactoryInit ==
    /\ namespace \in Namespaces
    /\ providers = NoProviders
    /\ fPc = "idle"
    /\ fCall = NoFactoryCall

FactoryIdle ==
    /\ namespace = {}
    /\ providers = NoProviders
    /\ fPc = "idle"
    /\ fCall = NoFactoryCall

FactoryNext ==
    \/ \E model_info \in ModelInfos : CreateModelFromInfo(model_info)
    \/ FactoryNextCall

----------------------------------------------------------------------------
(* Properties of the ModelFactory *)

\* The discovery mapping the last call resolved against.
Discovered == IF providers.computed THEN providers.names ELSE namespace

ParseFailed(model_info) == ParseModelStr(model_info.id).exc # ""

\* The provider segment of the identifier.
ParsedProviderKey(model_info) == ParseModelStr(model_info.id).provider

RaisedProviderConfigError ==
    /\ fCall.outcome.status = "raised"
    /\ fCall.outcome.exc = "ProviderConfigError"
    /\ fCall.outcome.instance = NoInstance

ReturnedInstanceOf(class) ==
    /\ fCall.outcome.status = "instance"
    /\ fCall.outcome.instance.class = class
    /\ fCall.outcome.instance.model_info.id = fCall.model_info.id

----------------------------------------------------------------------------
(* Registry.getOrCreate, unregister (the registry's code is not among the  *)
(* sources).  Construction on a miss is serialized by a lock per           *)
(* identifier; an instance is named by the order of its construction.      *)

RegistryKeys == {"dummy:factory", "openai:gpt-4o"}
Callers == 1..NumCallers

\* The per-identifier construction lock can be taken when no caller holds it.
AcquireUnguarded(k) == TRUE

CanAcquire(k) == lock[k] = 0

\* A caller enters getOrCreate(k).
Begin(t, k) ==
    /\ rPc[t] \in {"idle", "returned"}
    /\ rPc' = [rPc EXCEPT ![t] = "waiting"]
    /\ rKey' = [rKey EXCEPT ![t] = k]
    /\ rLocal' = [rLocal EXCEPT ![t] = 0]
    /\ contended' = [contended EXCEPT ![k] =
                        @ \/ (cache[k] = 0 /\ \E u \in Callers \ {t} :
                                 rKey[u] = k /\ rPc[u] \in {"waiting", "locked", "build", "insert"})]
    /\ UNCHANGED <<cache, lock, nextInstance, built, got, unregs>>
    /\ RegistryFrame

Acquire(t) ==
    /\ rPc[t] = "waiting"
    /\ CanAcquire(rKey[t])
    /\ lock' = [lock EXCEPT ![rKey[t]] = t]
    /\ rPc' = [rPc EXCEPT ![t] = "locked"]
    /\ UNCHANGED <<cache, rKey, rLocal, nextInstance, built, got, unregs, contended>>
    /\ RegistryFrame

\* Cache lookup: a hit is returned as it is, a miss goes to the Factory.
Lookup(t) ==
    /\ rPc[t] = "locked"
    /\ IF cache[rKey[t]] # 0
       THEN /\ rLocal' = [rLocal EXCEPT ![t] = cache[rKey[t]]]
            /\ rPc' = [rPc EXCEPT ![t] = "release"]
       ELSE /\ rPc' = [rPc EXCEPT ![t] = "build"]
            /\ UNCHANGED rLocal
    /\ UNCHANGED <<cache, lock, rKey, nextInstance, built, got, unregs, contended>>
    /\ RegistryFrame

\* Factory.createFromInfo builds a new instance.
Build(t) ==
    /\ rPc[t] = "build"
    /\ rLocal' = [rLocal EXCEPT ![t] = nextInstance]
    /\ nextInstance' = nextInstance + 1
    /\ built' = [built EXCEPT ![rKey[t]] = @ \cup {nextInstance}]
    /\ rPc' = [rPc EXCEPT ![t] = "insert"]
    /\ UNCHANGED <<cache, lock, rKey, got, unregs, contended>>
    /\ RegistryFrame

Insert(t) ==
    /\ rPc[t] = "insert"
    /\ cache' = [cache EXCEPT ![rKey[t]] = rLocal[t]]
    /\ rPc' = [rPc EXCEPT ![t] = "release"]
    /\ UNCHANGED <<lock, rKey, rLocal, nextInstance, built, got, unregs, contended>>
    /\ RegistryFrame

\* The lock is released and the caller receives the instance.
Release(t) ==
    /\ rPc[t] = "release"
    /\ lock' = [lock EXCEPT ![rKey[t]] = 0]
    /\ got' = [got EXCEPT ![rKey[t]] = @ \cup {rLocal[t]}]
    /\ rPc' = [rPc EXCEPT ![t] = "returned"]
    /\ UNCHANGED <<cache, rKey, rLocal, nextInstance, built, unregs, contended>>
    /\ RegistryFrame

\* unregister(k) removes the entry; a later getOrCreate builds anew.
Unregister(k) ==
    /\ cache[k] # 0
    /\ unregs[k] < MaxUnregisters
    /\ cache' = [cache EXCEPT ![k] = 0]
    /\ unregs' = [unregs EXCEPT ![k] = @ + 1]
    /\ UNCHANGED <<lock, rPc, rKey, rLocal, nextInstance, built, got, contended>>
    /\ RegistryFrame

RegistryInit ==
    /\ cache = [k \in RegistryKeys |-> 0]
    /\ lock = [k \in RegistryKeys |-> 0]
    /\ rPc = [t \in Callers |-> "idle"]
    /\ rKey = [t \in Callers |-> "dummy:factory"]
    /\ rLocal = [t \in Callers |-> 0]
    /\ nextInstance = 1
    /\ built = [k \in RegistryKeys |-> {}]
    /\ got = [k \in RegistryKeys |-> {}]
    /\ unregs = [k \in RegistryKeys |-> 0]
    /\ contended = [k \in RegistryKeys |-> FALSE]

RegistryNext ==
    \/ \E t \in Callers, k \in RegistryKeys : Begin(t, k)
    \/ \E t \in Callers : Acquire(t)
    \/ \E t \in Callers : Lookup(t)
    \/ \E t \in Callers : Build(t)
    \/ \E t \in Callers : Insert(t)
    \/ \E t \in Callers : Release(t)
    \/ \E k \in RegistryKeys : Unregister(k)

----------------------------------------------------------------------------
(* Properties of the Registry *)

\* C3: for an identifier that was never unregistered, whatever the
\* interleaving of getOrCreate calls, the Factory has constructed at most one
\* instance, exactly one once a caller has returned, every caller received that
\* instance, and the cache entry, if any, is that instance.
C3_AtMostOneConstruction ==
    \A k \in RegistryKeys :
        unregs[k] = 0 =>
            /\ Cardinality(built[k]) <= 1
            /\ got[k] \subseteq built[k]
            /\ got[k] # {} => Cardinality(built[k]) = 1
            /\ cache[k] # 0 => built[k] = {cache[k]}
            /\ \A t \in Callers :
                  (rKey[t] = k /\ rPc[t] = "returned") => got[k] = {rLocal[t]}

C3_Witness ==
    \E k \in RegistryKeys :
        /\ unregs[k] = 0
        /\ contended[k]
        /\ \A t \in Callers : rKey[t] = k /\ rPc[t] = "returned" /\ rLocal[t] = cache[k]
        /\ Cardinality(built[k]) = 1

----------------------------------------------------------------------------
(* UsageService.record, totals (the service's code is not among the        *)
(* sources).  record is a read-modify-write of the identifier's accumulator *)
(* inside a critical section; totals reads a snapshot inside it.            *)

UsageIds == {"dummy:factory", "openai:gpt-4o"}
Recorders == 1..NumRecorders
PromptTokenCounts == {1, 2}
CompletionTokenCounts == {0, 3}

\* Cost in thousandths, for ModelCost(input 1, output 2) per thousand tokens.
CostOf(prompt_tokens, completion_tokens) == prompt_tokens * 1 + completion_tokens * 2

ZeroUsage == [prompt_tokens |-> 0, completion_tokens |-> 0, cost |-> 0]

\* The identifier's critical section can be entered when no thread is inside.
EnterUnguarded(id) == TRUE

CanEnter(id) == uLock[id] = 0

AddUsage(rec, args) ==
    [prompt_tokens |-> rec.prompt_tokens + args.prompt_tokens,
     completion_tokens |-> rec.completion_tokens + args.completion_tokens,
     cost |-> rec.cost + args.cost]

\* A thread calls record(id, prompt_tokens, completion_tokens, cost).
Record(t, id, p, c) ==
    /\ uPc[t] = "idle"
    /\ uPc' = [uPc EXCEPT ![t] = "waiting"]
    /\ uArgs' = [uArgs EXCEPT ![t] = [id |-> id, prompt_tokens |-> p,
                                      completion_tokens |-> c, cost |-> CostOf(p, c)]]
    /\ overlapped' = [overlapped EXCEPT ![id] =
                         @ \/ \E u \in Recorders \ {t} :
                                  uArgs[u].id = id /\ uPc[u] \notin {"idle", "done"}]
    /\ UNCHANGED <<totals, uLock, uLocal, committed, observed>>
    /\ UsageFrame

Enter(t) ==
    /\ uPc[t] = "waiting"
    /\ CanEnter(uArgs[t].id)
    /\ uLock' = [uLock EXCEPT ![uArgs[t].id] = t]
    /\ uPc' = [uPc EXCEPT ![t] = "read"]
    /\ UNCHANGED <<totals, uArgs, uLocal, committed, observed, overlapped>>
    /\ UsageFrame

ReadTotals(t) ==
    /\ uPc[t] = "read"
    /\ uLocal' = [uLocal EXCEPT ![t] = totals[uArgs[t].id]]
    /\ uPc' = [uPc EXCEPT ![t] = "write_prompt"]
    /\ UNCHANGED <<totals, uLock, uArgs, committed, observed, overlapped>>
    /\ UsageFrame

WritePromptTokens(t) ==
    /\ uPc[t] = "write_prompt"
    /\ totals' = [totals EXCEPT ![uArgs[t].id].prompt_tokens =
                     uLocal[t].prompt_tokens + uArgs[t].prompt_tokens]
    /\ uPc' = [uPc EXCEPT ![t] = "write_rest"]
    /\ UNCHANGED <<uLock, uArgs, uLocal, committed, observed, overlapped>>
    /\ UsageFrame

WriteCompletionAndCost(t) ==
    /\ uPc[t] = "write_rest"
    /\ totals' = [totals EXCEPT
                     ![uArgs[t].id].completion_tokens =
                         uLocal[t].completion_tokens + uArgs[t].completion_tokens,
                     ![uArgs[t].id].cost = uLocal[t].cost + uArgs[t].cost]
    /\ committed' = [committed EXCEPT ![uArgs[t].id] = AddUsage(@, uArgs[t])]
    /\ uPc' = [uPc EXCEPT ![t] = "leave"]
    /\ UNCHANGED <<uLock, uArgs, uLocal, observed, overlapped>>
    /\ UsageFrame

Leave(t) ==
    /\ uPc[t] = "leave"
    /\ uLock' = [uLock EXCEPT ![uArgs[t].id] = 0]
    /\ uPc' = [uPc EXCEPT ![t] = "done"]
    /\ UNCHANGED <<totals, uArgs, uLocal, committed, observed, overlapped>>
    /\ UsageFrame

\* A reader's totals(id): a snapshot taken inside the critical section.
Totals(id) ==
    /\ CanEnter(id)
    /\ observed' = [read |-> TRUE, id |-> id, snapshot |-> totals[id],
                    committed |-> committed[id]]
    /\ UNCHANGED <<totals, uLock, uPc, uArgs, uLocal, committed, overlapped>>
    /\ UsageFrame

NoRecordArgs == [id |-> "dummy:factory", prompt_tokens |-> 0, completion_tokens |-> 0,
                 cost |-> 0]

UsageInit ==
    /\ totals = [id \in UsageIds |-> ZeroUsage]
    /\ uLock = [id \in UsageIds |-> 0]
    /\ uPc = [t \in Recorders |-> "idle"]
    /\ uArgs = [t \in Recorders |-> NoRecordArgs]
    /\ uLocal = [t \in Recorders |-> ZeroUsage]
    /\ committed = [id \in UsageIds |-> ZeroUsage]
    /\ observed = [read |-> FALSE, id |-> "dummy:factory", snapshot |-> ZeroUsage,
                   committed |-> ZeroUsage]
    /\ overlapped = [id \in UsageIds |-> FALSE]

UsageNext ==
    \/ \E t \in Recorders, id \in UsageIds,
          p \in PromptTokenCounts, c \in CompletionTokenCounts : Record(t, id, p, c)
    \/ \E t \in Recorders : Enter(t)
    \/ \E t \in Recorders : ReadTotals(t)
    \/ \E t \in Recorders : WritePromptTokens(t)
    \/ \E t \in Recorders : WriteCompletionAndCost(t)
    \/ \E t \in Recorders : Leave(t)
    \/ \E id \in UsageIds : Totals(id)

----------------------------------------------------------------------------
(* Properties of the UsageService *)

RECURSIVE SumOver(_, _, _)
SumOver(S, id, field) ==
    IF S = {} THEN 0
    ELSE LET t == CHOOSE t \in S : TRUE
         IN  (IF uArgs[t].id = id THEN uArgs[t][field] ELSE 0)
             + SumOver(S \ {t}, id, field)

\* C6: once all the concurrent record calls have completed, each identifier's
\* totals are the exact sums of the contributions made for it, whatever the
\* interleaving; and a totals() snapshot never shows a record that is partly
\* updated: it is the sum of the contributions fully written at that moment.
C6_NoLostUpdates ==
    /\ (\A t \in Recorders : uPc[t] = "done") =>
          \A id \in UsageIds :
              totals[id] = [prompt_tokens |-> SumOver(Recorders, id, "prompt_tokens"),
                            completion_tokens |-> SumOver(Recorders, id, "completion_tokens"),
                            cost |-> SumOver(Recorders, id, "cost")]
    /\ observed.read => observed.snapshot = observed.committed

C6_Witness ==
    /\ \A t \in Recorders : uPc[t] = "done" /\ uArgs[t].id = "openai:gpt-4o"
    /\ overlapped["openai:gpt-4o"]
    /\ \E t \in Recorders : totals["openai:gpt-4o"].prompt_tokens > uArgs[t].prompt_tokens
    /\ observed.read
    /\ observed.id = "openai:gpt-4o"
    /\ observed.snapshot = totals["openai:gpt-4o"]

----------------------------------------------------------------------------
(* Specifications *)

Init == LMInit /\ FactoryIdle /\ RegistryInit /\ UsageInit

Next == LMNext

Spec == Init /\ [][Next]_vars

InitFactory == FactoryInit /\ LMInit /\ RegistryInit /\ UsageInit

NextFactory == FactoryNext

SpecFactory == InitFactory /\ [][NextFactory]_vars

SpecRegistry == Init /\ [][RegistryNext]_vars

SpecUsage == Init /\ [][UsageNext]_vars

====
